---- MODULE Spec2Model ----
(***************************************************************************)
(* A model of src/main.py (CoachBot): the webhook intake queue, the        *)
(* sequential update dispatcher, the thread (context) map, the run         *)
(* polling loop of send_message_to_assistant and send_daily_reminder, the  *)
(* voice handler with its temporary file, and the delivery of replies.     *)
(*                                                                         *)
(* Reading of the source.  main.py defines some methods twice.  The model  *)
(* takes verify_email as route_message resolves it (the later definition,  *)
(* lines 911-936) and takes the scheduler as started and loaded by         *)
(* async_init (lines 528-546).  Every step of a coroutine between two      *)
(* awaits is one atomic action, as on a single asyncio event loop.         *)
(*                                                                         *)
(* Time is counted in poll intervals: asyncio.sleep(1) advances a task's   *)
(* elapsed time by one; remote calls take no time.                         *)
(***************************************************************************)
EXTENDS Integers, Sequences, FiniteSets, TLC

VARIABLES
    update_queue,    \* telegram_app.update_queue: FIFO of inbound updates
    tasks,           \* coroutines in flight: update handlers and reminder jobs
    user_threads,    \* self.user_threads: chat -> handle | NoneThread | Absent
    verified_users,  \* self.verified_users: chat -> email | NoEmail
    users,           \* table users of bot_data.db: chat -> row | NoRow
    conversations,   \* table conversations of bot_data.db (the audit log)
    scheduler_jobs,  \* the scheduler: chat -> trigger of job reminder_<chat_id> | NoJob
    n_threads,       \* engine: number of threads created; the handles are 1..n_threads
    runs,            \* engine: the runs that are not in a terminal status
    latest,          \* engine: per thread, the author of its most recent message
    cancel_calls,    \* engine: the runs.cancel requests received, in order
    outbox,          \* Telegram: the messages delivered to the user, in order
    files,           \* chats whose <chat_id>_voice_note.ogg exists on disk
    ended,           \* the update handlers that have returned, and how
    n_inputs,        \* number of webhook puts and reminder firings so far
    boot,            \* number of process restarts so far
    last_stored,     \* per chat, the handle user_threads held at the last restart
    validated,       \* chats that verify_email told 'Email validado' in this process run
    invalidated,     \* per chat, the handle that was removed by Invalidate
    lookup,          \* how the latest call of is_user_whitelisted in this process run went
    config           \* the environment the process is started in

vars == <<update_queue, tasks, user_threads, verified_users, users, conversations,
          scheduler_jobs, n_threads, runs, latest, cancel_calls, outbox, files, ended,
          n_inputs, boot, last_stored, validated, invalidated, lookup, config>>

\* what no step of the running process changes
env == <<config, invalidated, lookup>>

----------------------------------------------------------------------------
(* Bounds of the model *)

MaxInputs == 2
MaxRestarts == 1
\* the polling budgets (60 s at line 619, 30 s at line 452), in poll intervals
TurnBudget == 2
ReminderBudget == 1

Chats == {1, 2}
\* a chat that is new to the bot and sends nothing but its e-mail address
Newcomers == {2}

----------------------------------------------------------------------------
(* Values *)

Absent == -1        \* chat_id not in self.user_threads
NoneThread == 0     \* Python None stored as, or returned for, a thread id
NoEmail == "-"
\* the defaults of the columns timezone and reminder_time of table users
DefaultZone == "America/Mexico_City"
DefaultTime == "07:30"
\* a row of table users, with the columns' defaults
NewRow(email) ==
    [email |-> email, timezone |-> DefaultZone, reminder_time |-> DefaultTime,
     reminders_enabled |-> 1]
NoRow == [NewRow(NoEmail) EXCEPT !.reminders_enabled = 0]

\* hour, minute = map(int, time_str.split(':')): the two numbers, or <<>> where the
\* unpacking or int() raises
ParseTime(time_str) ==
    CASE time_str = "07:30" -> <<7, 30>>
      [] time_str = "09:00" -> <<9, 0>>
      [] time_str = "25:00" -> <<25, 0>>
      [] OTHER -> <<>>

\* set_reminder_time: the argument parses and 0 <= hour < 24 and 0 <= minute < 60
ValidTime(time_str) ==
    LET hm == ParseTime(time_str) IN
        hm # <<>> /\ 0 <= hm[1] /\ hm[1] < 24 /\ 0 <= hm[2] /\ hm[2] < 60

\* set_timezone: pytz.timezone(timezone_str) does not raise
ValidZone(timezone_str) == timezone_str \in {"America/Mexico_City", "Europe/Madrid"}

\* CronTrigger(hour=hour, minute=minute, timezone=timezone_str)
CronTrigger(hour, minute, timezone_str) ==
    [hour |-> hour, minute |-> minute, timezone |-> timezone_str]
NoJob == CronTrigger(-1, -1, "-")

\* the updates that a CommandHandler takes, by the command they carry
CommandKinds == {"settime", "timezone", "enablereminders", "disablereminders"}

IsHandle(h) == h > 0

\* what the process finds when it starts: everything in place, a required
\* environment variable missing, the credentials file of the spreadsheet missing,
\* or an environment in which async_init raises (at telegram_app.initialize())
Configs == {"ok", "no_env", "no_credentials", "init_failed"}

\* bot = CoachBot(): __init__ raises EnvironmentError for a missing variable and the
\* module-level except clause raises it on, so the module is not imported; the
\* result of _init_sheets is not looked at
Constructed(cfg) == cfg # "no_env"

\* startup_event: async_init ran to its end (an exception it raises is logged and
\* the application keeps starting)
Started(cfg) == cfg \in {"ok", "no_credentials"}

\* _init_sheets built self.sheets_service; without it is_user_whitelisted catches
\* its own exception and returns False
SheetsReady(cfg) == cfg # "no_credentials"

\* run statuses: in_progress, cancelling and incomplete take the same branch of
\* the polling loop as queued does
NonTerminal == {"queued", "requires_action"}
FailedStatuses == {"failed", "cancelled", "expired"}
Terminal == {"completed"} \cup FailedStatuses
Statuses == NonTerminal \cup Terminal

\* user-facing texts of send_message_to_assistant and process_text_message
MSG_NOCONN == "No se pudo establecer conexion con el asistente."
MSG_ERROR == "Ocurrio un error al procesar tu mensaje."
MSG_EMPTY == "La respuesta del asistente esta vacia. Intentalo mas tarde."
MSG_REPLY == "<assistant message>"
\* user-facing texts of handle_message, route_message and handle_voice_message
MSG_UNEXPECTED == "Ocurrio un error inesperado. Intentalo mas tarde."
MSG_ROUTE == "Ocurrio un error procesando tu mensaje. Por favor, intenta de nuevo."
MSG_VOICE_RETRY == "No pude entender la nota de voz. Intenta de nuevo."
MSG_VOICE_SERVICE == "Ocurrio un error con el servicio de reconocimiento de voz."
MSG_VOICE_ERROR == "Ocurrio un error procesando la nota de voz."
\* user-facing texts of verify_email: its last line and its except clause
MSG_VERIFIED == "Email validado. Ahora puedes hablar conmigo."
MSG_VERIFY_ERROR == "Ocurrio un error verificando tu email."
\* reminder_text of send_daily_reminder: the fetched message between two fixed lines
MSG_REMINDER == "Buenos dias! <assistant message> Listo para el dia de hoy?"
NoResponse == ""

\* a message of a thread, by its role and by the update or reminder whose coroutine
\* appended it (role user) or whose run produced it (role assistant)
Message(role, uid) == [role |-> role, uid |-> uid]
NoMessage == Message("none", 0)

NewTask(kind, chat, uid, text, during) ==
    [kind |-> kind, chat |-> chat, uid |-> uid, text |-> text, during |-> during,
     pc |-> "typing", thread_id |-> NoneThread, run |-> 0, elapsed |-> 0,
     seen |-> "none", exit |-> "none", fetched |-> FALSE, creates |-> 0,
     appends |-> 0, submits |-> 0, source |-> NoMessage, response |-> NoResponse]

Budget(t) == IF t.kind = "reminder" THEN ReminderBudget ELSE TurnBudget

HandlerTasks == {t \in tasks : t.kind # "reminder"}

----------------------------------------------------------------------------
(* Pure helpers *)

\* is_user_whitelisted: how values().get(...).execute() can go. On a sheets_service
\* that _init_sheets did not build the call raises AttributeError
LookupOutcomes(cfg) ==
    IF SheetsReady(cfg) THEN {"listed", "unlisted", "raises"} ELSE {"raises"}

\* a lookup that lets the e-mail pass when the sheet could not be read
is_user_whitelisted_open(outcome) == outcome # "unlisted"

\* is_user_whitelisted: email.lower() in whitelist; the except clause returns False
is_user_whitelisted(outcome) == outcome = "listed"

\* verify_email: '@' in user_email and '.' in user_email
ValidEmail(text) == text \in {"ana@mail.com"}

\* a put that jumps the queue
webhook_put_front(queue, update) == <<update>> \o queue

\* webhook: await bot.telegram_app.update_queue.put(update)
webhook_put(queue, update) == Append(queue, update)

\* the updates of a chat that wait in the queue
Pending(c) == Cardinality({k \in 1..Len(update_queue) : update_queue[k].chat = c})

\* Application.builder().token(...).build(): concurrent_updates is left off, so
\* the application awaits each update's handler before it takes the next one
DispatcherFree == HandlerTasks = {}

\* a loop that tests its budget only for the statuses it expects while running
PollBranch_known_only(status, elapsed, budget) ==
    IF status = "completed" THEN "break"
    ELSE IF status \in {"failed", "cancelled", "expired"} THEN "failed"
    ELSE IF status = "queued" /\ elapsed > budget THEN "timeout"
    ELSE "sleep"

\* a loop whose list of failed statuses misses 'expired'
PollBranch_no_expired(status, elapsed, budget) ==
    IF status = "completed" THEN "break"
    ELSE IF status \in {"failed", "cancelled"} THEN "failed"
    ELSE IF elapsed > budget THEN "timeout"
    ELSE "sleep"

\* the branch of the polling loop after runs.retrieve returned `status`
PollBranch(status, elapsed, budget) ==
    IF status = "completed" THEN "break"
    ELSE IF status \in {"failed", "cancelled", "expired"} THEN "failed"
    ELSE IF elapsed > budget THEN "timeout"
    ELSE "sleep"

\* get_or_create_thread up to its first await: the handle in the map, or Absent
LookupThread(chat) == user_threads[chat]

\* get_or_create_thread after threads.create: the new handle is stored; a failure
\* is logged and stores nothing
StoreThread(map, chat, h) ==
    IF h = NoneThread THEN map ELSE [map EXCEPT ![chat] = h]

\* save_verified_user: INSERT OR REPLACE INTO users (chat_id, email, username);
\* the row of the chat and any row holding the same email are replaced
save_verified_user(table, chat, email) ==
    [c \in Chats |->
        IF c = chat THEN NewRow(email)
        ELSE IF table[c].email = email THEN NoRow
        ELSE table[c]]

\* UPDATE users SET <column> = ? WHERE chat_id = ?: no row, no change
set_reminder_time(table, chat, time_str) ==
    IF table[chat] = NoRow THEN table
    ELSE [table EXCEPT ![chat].reminder_time = time_str]
set_timezone(table, chat, timezone_str) ==
    IF table[chat] = NoRow THEN table
    ELSE [table EXCEPT ![chat].timezone = timezone_str]
set_reminders_enabled(table, chat, flag) ==
    IF table[chat] = NoRow THEN table
    ELSE [table EXCEPT ![chat].reminders_enabled = flag]

\* the trigger schedule_user_reminders builds from a row
TriggerOf(row) ==
    CronTrigger(ParseTime(row.reminder_time)[1], ParseTime(row.reminder_time)[2],
                row.timezone)

\* schedule_user_reminders: without a row nothing happens; a disabled row's job is
\* removed; otherwise the job is replaced by one with the row's trigger
schedule_user_reminders(jobs, table, chat) ==
    IF table[chat] = NoRow THEN jobs
    ELSE IF table[chat].reminders_enabled = 0 THEN [jobs EXCEPT ![chat] = NoJob]
    ELSE [jobs EXCEPT ![chat] = TriggerOf(table[chat])]

\* disable_reminders: the job of the chat is removed if there is one
remove_job(jobs, chat) == [jobs EXCEPT ![chat] = NoJob]

\* an audit that records the assistant's side only
save_conversation_reply_only(log, t) ==
    log \o <<[chat |-> t.chat, role |-> "assistant", uid |-> t.uid]>>

\* save_conversation, twice: the user row, then the assistant row (the rows are
\* identified by the update they belong to)
save_conversation(log, t) ==
    log \o <<[chat |-> t.chat, role |-> "user", uid |-> t.uid],
             [chat |-> t.chat, role |-> "assistant", uid |-> t.uid]>>

\* load_verified_users: SELECT chat_id, email FROM users
load_verified_users(table) == [c \in Chats |-> table[c].email]

\* load_all_reminders on the empty scheduler of a new process:
\* schedule_user_reminders for every row with reminders_enabled = 1
load_all_reminders(table) ==
    [c \in Chats |->
        IF table[c] # NoRow /\ table[c].reminders_enabled = 1
        THEN schedule_user_reminders([k \in Chats |-> NoJob], table, c)[c]
        ELSE NoJob]

\* the statuses the engine may move a run to
EngineNext(status) ==
    CASE status = "queued" ->
            {"requires_action", "completed", "failed", "cancelled", "expired"}
      [] status = "requires_action" -> {"cancelled", "expired"}
      [] OTHER -> {}

\* the statuses a poll may report for a run last seen in `status`
Reportable(status) ==
    {status} \cup EngineNext(status)
             \cup UNION {EngineNext(next) : next \in EngineNext(status)}

\* threads.runs.create: the run the engine creates for a thread
NewRun(id, thread) == [id |-> id, thread |-> thread]

\* the coroutine leaves send_message_to_assistant (or the try block of
\* send_daily_reminder) with `text`; start_time is dead from here on
Return(t, exit, text) ==
    [t EXCEPT !.pc = "return", !.exit = exit, !.response = text, !.elapsed = 0]

\* what a caller of get_or_create_thread does with the thread id it got
AfterThread(t, thread_id) ==
    IF thread_id = NoneThread
    THEN Return([t EXCEPT !.thread_id = thread_id], "noconn", MSG_NOCONN)
    ELSE [t EXCEPT !.thread_id = thread_id, !.pc = "append"]

\* where a coroutine that left its try block suspends next: handle_message awaits
\* reply_text, send_daily_reminder awaits send_message after a completed run, and
\* handle_voice_message and a failed reminder end
Settled(t) ==
    IF t.pc # "return" THEN {t}
    ELSE IF t.kind = "text" THEN {[t EXCEPT !.pc = "reply"]}
    ELSE IF t.kind = "reminder" /\ t.exit = "break" THEN {[t EXCEPT !.pc = "send"]}
    ELSE {}

\* how the two save_conversation calls of process_text_message can go: both return,
\* the second raises, the first raises (save_conversation catches nothing)
AuditOutcomes(t) ==
    IF t.pc = "return" /\ t.kind \in {"text", "voice"}
    THEN {"pair", "user_only", "none"} ELSE {"pair"}

\* process_text_message after send_message_to_assistant returned a non-blank text:
\* the audit rows that were committed
Audited(log, t, saved) ==
    IF t.pc = "return" /\ t.kind \in {"text", "voice"}
    THEN CASE saved = "pair" -> save_conversation(log, t)
           [] saved = "user_only" -> SubSeq(save_conversation(log, t), 1, Len(log) + 1)
           [] OTHER -> log
    ELSE log

\* process_text_message returns the text it got, or, from its except clause after
\* save_conversation raised, its error text
Processed(t, saved) ==
    IF saved = "pair" THEN t ELSE [t EXCEPT !.response = MSG_ERROR]

\* a handler that answers every recognition problem with its generic text
VoiceNotice_generic(outcome) == MSG_VOICE_ERROR

\* handle_voice_message: the text of the except clause that catches the outcome of
\* recognize_google (UnknownValueError, RequestError, any other exception)
VoiceNotice(outcome) ==
    CASE outcome = "unintelligible" -> MSG_VOICE_RETRY
      [] outcome = "unavailable" -> MSG_VOICE_SERVICE
      [] OTHER -> MSG_VOICE_ERROR

\* the awaits of reply_text and send_message
SendPcs == {"reply", "apology", "route_apology", "voice_notice", "voice_apology", "send",
            "verified", "verify_apology"}

\* the text a coroutine hands to reply_text or send_message at its current await
SendText(t) ==
    CASE t.pc = "apology" -> MSG_UNEXPECTED
      [] t.pc = "route_apology" -> MSG_ROUTE
      [] t.pc = "voice_apology" -> MSG_VOICE_ERROR
      [] t.pc = "send" -> MSG_REMINDER
      [] t.pc = "verified" -> MSG_VERIFIED
      [] t.pc = "verify_apology" -> MSG_VERIFY_ERROR
      [] OTHER -> t.response

\* where the exception of a failed send lands: the except clause of handle_message,
\* then the one of route_message; the except clause of verify_email, then the one
\* of route_message; the outer except clause of handle_voice_message; from an
\* except clause, and from send_daily_reminder's try block, it is raised on
OnSendFailure(pc) ==
    CASE pc = "reply" -> "apology"
      [] pc = "apology" -> "route_apology"
      [] pc = "verified" -> "verify_apology"
      [] pc = "verify_apology" -> "route_apology"
      [] pc = "voice_notice" -> "voice_apology"
      [] OTHER -> "raised"

\* how an update handler returned: whether processing yielded a reply of the engine,
\* whether any step failed, and whether an exception left the handler
EndOf(t, escaped) ==
    [uid |-> t.uid, kind |-> t.kind, replied |-> t.exit = "break",
     failed |-> \/ t.exit # "break"
                \/ t.response = MSG_ERROR
                \/ t.pc \in {"apology", "route_apology", "voice_apology"},
     escaped |-> escaped]

\* handle_voice_message returns as soon as process_text_message has returned
Ended(set, t) ==
    IF t.pc = "return" /\ t.kind = "voice" THEN set \cup {EndOf(t, FALSE)} ELSE set

----------------------------------------------------------------------------
\* self.verified_users and the scheduler's jobs once startup_event has returned
StartedUsers(cfg, table) ==
    IF Started(cfg) THEN load_verified_users(table) ELSE [c \in Chats |-> NoEmail]
StartedJobs(cfg, table) ==
    IF Started(cfg) THEN load_all_reminders(table) ELSE [c \in Chats |-> NoJob]

\* the state after the module was loaded and startup_event returned
InitState ==
    /\ update_queue = <<>>
    /\ tasks = {}
    /\ user_threads = [c \in Chats |-> Absent]
    /\ users \in [Chats -> {NoRow, NewRow("ana@mail.com")}]
    /\ \A c \in Newcomers : users[c] = NoRow
    /\ verified_users = StartedUsers(config, users)
    /\ conversations = <<>>
    /\ scheduler_jobs = StartedJobs(config, users)
    /\ n_threads = 0
    /\ runs = {}
    /\ latest = <<>>
    /\ cancel_calls = <<>>
    /\ outbox = <<>>
    /\ files = {}
    /\ ended = {}
    /\ n_inputs = 0
    /\ boot = 0
    /\ last_stored = [c \in Chats |-> NoneThread]
    /\ validated = {}
    /\ invalidated = [c \in Chats |-> NoneThread]
    /\ lookup = "none"

\* the process starts with its environment complete
Init ==
    /\ config = "ok"
    /\ InitState

\* the process starts in any environment
InitStartup ==
    /\ config \in Configs
    /\ InitState

\* a coroutine resumes from an await and runs to its next await (or to its end)
Resume(t, next) ==
    \E saved \in AuditOutcomes(next) :
        /\ tasks' = (tasks \ {t}) \cup Settled(Processed(next, saved))
        /\ conversations' = Audited(conversations, next, saved)
        /\ ended' = Ended(ended, Processed(next, saved))

\* POST /webhook: the update is put on the application's queue
Put(c, kind, text) ==
    /\ Constructed(config)
    /\ n_inputs' = n_inputs + 1
    /\ update_queue' = webhook_put(update_queue,
            [chat |-> c, kind |-> kind, text |-> text, uid |-> n_inputs + 1,
             during |-> \E t \in HandlerTasks : t.chat = c /\ t.pc \in {"poll", "sleep"}])
    /\ UNCHANGED <<tasks, user_threads, verified_users, users, conversations,
                   scheduler_jobs, n_threads, runs, latest, cancel_calls, outbox, files, ended, boot, last_stored, validated, env>>

\* one of the MaxInputs updates the model posts
Webhook(c, kind, text) ==
    /\ n_inputs < MaxInputs
    /\ Put(c, kind, text)

\* route_message -> handle_message, up to the await of send_chat_action
DispatchTurn ==
    /\ Started(config)
    /\ DispatcherFree
    /\ update_queue # <<>>
    /\ LET u == Head(update_queue) IN
        /\ u.kind = "text"
        /\ verified_users[u.chat] # NoEmail
        /\ tasks' = tasks \cup {NewTask("text", u.chat, u.uid, u.text, u.during)}
    /\ update_queue' = Tail(update_queue)
    /\ UNCHANGED <<user_threads, verified_users, users, conversations, scheduler_jobs,
                   n_threads, runs, latest, cancel_calls, outbox, files, ended, n_inputs, boot, last_stored, validated, env>>

\* route_message -> verify_email, up to the await of threads.create or, with the
\* thread known, of the reply_text that ends it; a rejected e-mail is answered and
\* changes nothing
DispatchVerify(outcome) ==
    /\ Started(config)
    /\ DispatcherFree
    /\ update_queue # <<>>
    /\ LET u == Head(update_queue)
           known == LookupThread(u.chat) IN
        /\ u.kind = "text"
        /\ verified_users[u.chat] = NoEmail
        /\ outcome \in LookupOutcomes(config)
        /\ lookup' = IF ValidEmail(u.text) THEN outcome ELSE lookup
        /\ IF ~ValidEmail(u.text) \/ ~is_user_whitelisted(outcome)
           THEN UNCHANGED <<tasks, user_threads, users>>
           ELSE IF known # Absent
           THEN /\ user_threads' = [user_threads EXCEPT ![u.chat] = known]
                /\ users' = save_verified_user(users, u.chat, u.text)
                /\ tasks' = tasks \cup
                      {[NewTask("verify", u.chat, u.uid, u.text, u.during)
                            EXCEPT !.pc = "verified"]}
           ELSE /\ tasks' = tasks \cup
                      {[NewTask("verify", u.chat, u.uid, u.text, u.during)
                            EXCEPT !.pc = "create"]}
                /\ UNCHANGED <<user_threads, users>>
    /\ update_queue' = Tail(update_queue)
    /\ UNCHANGED <<verified_users, conversations, scheduler_jobs, n_threads, runs, latest,
                   cancel_calls, outbox, files, ended, n_inputs, boot, last_stored, validated,
                   config, invalidated>>

\* set_reminder_time, set_timezone, enable_reminders, disable_reminders: the check
\* of verified_users, the validation of the argument, the UPDATE and the change of
\* the scheduler's job; the reply that ends the handler is not recorded
DispatchCommand ==
    /\ Started(config)
    /\ DispatcherFree
    /\ update_queue # <<>>
    /\ LET u == Head(update_queue)
           table == CASE u.kind = "settime" -> set_reminder_time(users, u.chat, u.text)
                      [] u.kind = "timezone" -> set_timezone(users, u.chat, u.text)
                      [] u.kind = "enablereminders" ->
                            set_reminders_enabled(users, u.chat, 1)
                      [] OTHER -> set_reminders_enabled(users, u.chat, 0)
           valid == CASE u.kind = "settime" -> ValidTime(u.text)
                      [] u.kind = "timezone" -> ValidZone(u.text)
                      [] OTHER -> TRUE IN
        /\ u.kind \in CommandKinds
        /\ IF verified_users[u.chat] = NoEmail \/ ~valid
           THEN UNCHANGED <<users, scheduler_jobs>>
           ELSE /\ users' = table
                /\ scheduler_jobs' =
                      IF u.kind = "disablereminders" THEN remove_job(scheduler_jobs, u.chat)
                      ELSE schedule_user_reminders(scheduler_jobs, table, u.chat)
    /\ update_queue' = Tail(update_queue)
    /\ UNCHANGED <<tasks, user_threads, verified_users, conversations, n_threads, runs,
                   latest, cancel_calls, outbox, files, ended, n_inputs, boot, last_stored,
                   validated, env>>

\* handle_voice_message: get_file, download to <chat_id>_voice_note.ogg, AudioFile,
\* recognize_google, up to the await of send_chat_action in process_text_message or
\* of reply_text in an except clause
DispatchVoice(outcome) ==
    /\ Started(config)
    /\ DispatcherFree
    /\ update_queue # <<>>
    /\ LET u == Head(update_queue)
           t == NewTask("voice", u.chat, u.uid, "<transcript>", u.during) IN
        /\ u.kind = "voice"
        /\ files' = IF outcome = "download_failed" THEN files ELSE files \cup {u.chat}
        /\ tasks' = tasks \cup
             {CASE outcome = "recognized" -> t
                [] outcome = "unintelligible" ->
                     [t EXCEPT !.pc = "voice_notice", !.exit = "unintelligible",
                               !.response = VoiceNotice(outcome)]
                [] outcome = "unavailable" ->
                     [t EXCEPT !.pc = "voice_notice", !.exit = "unavailable",
                               !.response = VoiceNotice(outcome)]
                [] OTHER -> [t EXCEPT !.pc = "voice_apology", !.exit = "error"]}
    /\ update_queue' = Tail(update_queue)
    /\ UNCHANGED <<user_threads, verified_users, users, conversations, scheduler_jobs,
                   n_threads, runs, latest, cancel_calls, outbox, ended, n_inputs, boot,
                   last_stored, validated, env>>

\* the scheduler runs job reminder_<chat_id>: send_daily_reminder up to its first await
ReminderFire(c) ==
    /\ Started(config)
    /\ scheduler_jobs[c] # NoJob
    /\ n_inputs < MaxInputs
    /\ ~\E t \in tasks : t.kind = "reminder" /\ t.chat = c
    /\ n_inputs' = n_inputs + 1
    /\ LET known == LookupThread(c)
           t == [NewTask("reminder", c, n_inputs + 1, "<prompt>", FALSE)
                    EXCEPT !.pc = "create"] IN
        tasks' =
            IF users[c] = NoRow \/ users[c].reminders_enabled = 0 THEN tasks
            ELSE IF known # Absent THEN tasks \cup Settled(AfterThread(t, known))
            ELSE tasks \cup {t}
    /\ UNCHANGED <<update_queue, user_threads, verified_users, users, conversations,
                   scheduler_jobs, n_threads, runs, latest, cancel_calls, outbox, files, ended, boot, last_stored, validated, env>>

\* process_text_message after send_chat_action, into send_message_to_assistant and
\* get_or_create_thread up to its first await; if send_chat_action raised,
\* process_text_message returns its error text and writes no audit row
BeginTurn(t, ok) ==
    /\ t \in tasks
    /\ t.pc = "typing"
    /\ LET known == LookupThread(t.chat) IN
        IF ~ok
        THEN /\ tasks' = (tasks \ {t}) \cup Settled(Return(t, "error", MSG_ERROR))
             /\ ended' = Ended(ended, Return(t, "error", MSG_ERROR))
             /\ UNCHANGED conversations
        ELSE IF known # Absent THEN Resume(t, AfterThread(t, known))
        ELSE Resume(t, [t EXCEPT !.pc = "create"])
    /\ UNCHANGED <<update_queue, user_threads, verified_users, users, scheduler_jobs,
                   n_threads, runs, latest, cancel_calls, outbox, files, n_inputs, boot, last_stored, validated, env>>

\* get_or_create_thread after threads.create returned or raised, and what its
\* caller does next; verify_email stores what it got, saves the row and awaits the
\* reply_text that ends it
CreateThread(t, ok) ==
    /\ t \in tasks
    /\ t.pc = "create"
    /\ LET h == IF ok THEN n_threads + 1 ELSE NoneThread
           stored == StoreThread(user_threads, t.chat, h) IN
        /\ n_threads' = IF ok THEN n_threads + 1 ELSE n_threads
        /\ latest' = IF ok THEN Append(latest, NoMessage) ELSE latest
        /\ IF t.kind = "verify"
           THEN /\ user_threads' = [stored EXCEPT ![t.chat] = h]
                /\ users' = save_verified_user(users, t.chat, t.text)
                /\ tasks' = (tasks \ {t}) \cup {[t EXCEPT !.pc = "verified"]}
                /\ UNCHANGED <<conversations, ended>>
           ELSE /\ user_threads' = stored
                /\ users' = users
                /\ Resume(t, AfterThread([t EXCEPT !.creates = @ + 1], h))
    /\ UNCHANGED <<update_queue, verified_users, scheduler_jobs, runs, cancel_calls, outbox, files,
                   n_inputs, boot, last_stored, validated, env>>

\* threads.messages.create returned or raised
AppendMessage(t, ok) ==
    /\ t \in tasks
    /\ t.pc = "append"
    /\ latest' = IF ok THEN [latest EXCEPT ![t.thread_id] = Message("user", t.uid)]
                  ELSE latest
    /\ Resume(t, IF ok THEN [t EXCEPT !.pc = "submit", !.appends = @ + 1]
                 ELSE Return(t, "error", MSG_ERROR))
    /\ UNCHANGED <<update_queue, user_threads, verified_users, users, scheduler_jobs,
                   n_threads, runs, cancel_calls, outbox, files, n_inputs, boot, last_stored, validated, env>>

\* threads.runs.create returned or raised; start_time = time.time()
SubmitJob(t, ok) ==
    /\ t \in tasks
    /\ t.pc = "submit"
    /\ runs' = IF ok THEN runs \cup {NewRun(t.uid, t.thread_id)} ELSE runs
    /\ Resume(t, IF ok
                 THEN [t EXCEPT !.pc = "poll", !.run = t.uid, !.submits = @ + 1,
                                !.seen = "queued", !.elapsed = 0]
                 ELSE Return(t, "error", MSG_ERROR))
    /\ UNCHANGED <<update_queue, user_threads, verified_users, users, scheduler_jobs,
                   n_threads, latest, cancel_calls, outbox, files, n_inputs, boot, last_stored, validated, env>>

\* threads.runs.retrieve returned `status` or raised, and the branch on the status;
\* between two polls the engine may have moved the run on by any number of steps
PollJob(t, ok, status) ==
    /\ t \in tasks
    /\ t.pc = "poll"
    /\ status \in Reportable(t.seen)
    /\ ok \/ status = t.seen
    /\ runs' = IF status \in Terminal THEN runs \ {NewRun(t.run, t.thread_id)} ELSE runs
    /\ latest' = IF ok /\ status = "completed"
                  THEN [latest EXCEPT ![t.thread_id] = Message("assistant", t.run)]
                  ELSE latest
    /\ LET branch == PollBranch(status, t.elapsed, Budget(t))
           seen == [t EXCEPT !.seen = status] IN
        Resume(t, IF ~ok THEN Return(t, "error", MSG_ERROR)
                  ELSE IF branch = "break"
                  THEN [seen EXCEPT !.pc = "list", !.exit = "break", !.elapsed = 0]
                  ELSE IF branch = "sleep" THEN [seen EXCEPT !.pc = "sleep"]
                  ELSE Return(seen, branch, MSG_ERROR))
    /\ UNCHANGED <<update_queue, user_threads, verified_users, users, scheduler_jobs,
                   n_threads, cancel_calls, outbox, files, n_inputs, boot, last_stored, validated, env>>

\* await asyncio.sleep(1)
Sleep(t) ==
    /\ t \in tasks
    /\ t.pc = "sleep"
    /\ t.elapsed <= Budget(t) + 2
    /\ Resume(t, [t EXCEPT !.pc = "poll", !.elapsed = @ + 1])
    /\ UNCHANGED <<update_queue, user_threads, verified_users, users, scheduler_jobs,
                   n_threads, runs, latest, cancel_calls, outbox, files, n_inputs, boot, last_stored, validated, env>>

\* threads.messages.list(order="desc", limit=1) returned the most recent message of
\* the thread, returned a message without content, or raised
FetchLatestReply(t, outcome) ==
    /\ t \in tasks
    /\ t.pc = "list"
    /\ LET got == [t EXCEPT !.fetched = TRUE] IN
        Resume(t, CASE outcome = "message" ->
                        Return([got EXCEPT !.source = latest[t.thread_id]], "break", MSG_REPLY)
                    [] outcome = "empty" -> Return(got, "empty", MSG_EMPTY)
                    [] OTHER -> Return(got, "error", MSG_ERROR))
    /\ UNCHANGED <<update_queue, user_threads, verified_users, users, scheduler_jobs,
                   n_threads, runs, latest, cancel_calls, outbox, files, n_inputs, boot, last_stored, validated, env>>

\* the engine completes a run that no coroutine polls any more (its turn timed out,
\* failed on a poll, or was lost in a restart) and adds the run's message to the thread
EngineLate(r) ==
    /\ r \in runs
    /\ ~\E t \in tasks : t.run = r.id /\ t.pc \in {"poll", "sleep"}
    /\ runs' = runs \ {r}
    /\ latest' = [latest EXCEPT ![r.thread] = Message("assistant", r.id)]
    /\ UNCHANGED <<update_queue, tasks, user_threads, verified_users, users,
                   conversations, scheduler_jobs, n_threads, cancel_calls, outbox, files, ended, n_inputs, boot,
                   last_stored, validated, env>>

\* reply_text or send_message returned or raised: the message is delivered and the
\* coroutine ends, or the exception goes to the enclosing except clause, which sends
\* its own text, or it leaves the handler
Deliver(t, ok) ==
    /\ t \in tasks
    /\ t.pc \in SendPcs
    /\ LET next == OnSendFailure(t.pc)
           over == ok \/ next = "raised" IN
        /\ outbox' = IF ok THEN Append(outbox, [uid |-> t.uid, text |-> SendText(t)])
                      ELSE outbox
        /\ tasks' = IF over THEN tasks \ {t} ELSE (tasks \ {t}) \cup {[t EXCEPT !.pc = next]}
        /\ ended' = IF over /\ t.kind \in {"text", "voice"} THEN ended \cup {EndOf(t, ~ok)}
                     ELSE ended
        /\ validated' = IF ok /\ t.pc = "verified" THEN validated \cup {t.chat}
                         ELSE validated
    /\ UNCHANGED <<update_queue, user_threads, verified_users, users, conversations,
                   scheduler_jobs, n_threads, runs, latest, cancel_calls, files, n_inputs,
                   boot, last_stored, env>>

\* the process stops and starts again: CoachBot.__init__ and async_init
Restart ==
    /\ boot < MaxRestarts
    /\ boot' = boot + 1
    /\ update_queue' = <<>>
    /\ tasks' = {}
    /\ last_stored' = [c \in Chats |->
            IF IsHandle(user_threads[c]) THEN user_threads[c] ELSE last_stored[c]]
    /\ user_threads' = [c \in Chats |-> Absent]
    /\ validated' = {}
    /\ verified_users' = StartedUsers(config, users)
    /\ scheduler_jobs' = StartedJobs(config, users)
    /\ lookup' = "none"
    /\ UNCHANGED <<users, conversations, n_threads, runs, latest, cancel_calls, outbox, files,
                   ended, n_inputs, config, invalidated>>

Next ==
    \/ \E c \in Chats \ Newcomers : Webhook(c, "text", "hola")
    \/ \E c \in Chats : Webhook(c, "text", "ana@mail.com")
    \/ \E c \in Chats \ Newcomers : Webhook(c, "voice", "")
    \/ \E c \in Chats \ Newcomers, time_str \in {"09:00", "25:00"} :
            Webhook(c, "settime", time_str)
    \/ \E c \in Chats \ Newcomers : Webhook(c, "timezone", "Europe/Madrid")
    \/ \E c \in Chats \ Newcomers : Webhook(c, "enablereminders", "")
    \/ \E c \in Chats \ Newcomers : Webhook(c, "disablereminders", "")
    \/ DispatchTurn
    \/ DispatchCommand
    \/ \E outcome \in {"listed", "unlisted", "raises"} : DispatchVerify(outcome)
    \/ \E outcome \in {"download_failed", "unreadable", "recognized", "unintelligible",
                       "unavailable"} : DispatchVoice(outcome)
    \/ \E c \in Chats : ReminderFire(c)
    \/ \E t \in tasks, ok \in BOOLEAN : BeginTurn(t, ok)
    \/ \E t \in tasks, ok \in BOOLEAN : CreateThread(t, ok)
    \/ \E t \in tasks, ok \in BOOLEAN : AppendMessage(t, ok)
    \/ \E t \in tasks, ok \in BOOLEAN : SubmitJob(t, ok)
    \/ \E t \in tasks, ok \in BOOLEAN, status \in Statuses : PollJob(t, ok, status)
    \/ \E t \in tasks : Sleep(t)
    \/ \E t \in tasks, outcome \in {"message", "empty", "raise"} :
            FetchLatestReply(t, outcome)
    \/ \E r \in runs : EngineLate(r)
    \/ \E t \in tasks, ok \in BOOLEAN : Deliver(t, ok)
    \/ Restart

Spec == Init /\ [][Next]_vars

\* ContextStore.Invalidate of a conversation that holds a handle, has no update
\* queued or in a handler, and has no coroutine running under the handle: the
\* mapping is removed.  Resets are looked at after the MaxInputs inputs of the
\* model, one per conversation.
Invalidate(c) ==
    /\ n_inputs = MaxInputs
    /\ invalidated[c] = NoneThread
    /\ IsHandle(LookupThread(c))
    /\ Pending(c) = 0
    /\ ~\E t \in HandlerTasks : t.chat = c
    /\ ~\E t \in tasks : t.thread_id = LookupThread(c)
    /\ invalidated' = [invalidated EXCEPT ![c] = LookupThread(c)]
    /\ user_threads' = [user_threads EXCEPT ![c] = Absent]
    /\ UNCHANGED <<update_queue, tasks, verified_users, users, conversations,
                   scheduler_jobs, n_threads, runs, latest, cancel_calls, outbox, files,
                   ended, n_inputs, boot, last_stored, validated, lookup, config>>

\* the next text message of a conversation that was reset
WebhookAfterReset(c) ==
    /\ n_inputs = MaxInputs
    /\ invalidated[c] # NoneThread
    /\ Put(c, "text", "hola")

\* text turns, reminders and resets within one process run
NextReset ==
    \/ DispatchTurn
    \/ \E t \in tasks, ok \in BOOLEAN : BeginTurn(t, ok)
    \/ \E t \in tasks, ok \in BOOLEAN : CreateThread(t, ok)
    \/ \E t \in tasks, ok \in BOOLEAN : AppendMessage(t, ok)
    \/ \E t \in tasks, ok \in BOOLEAN : SubmitJob(t, ok)
    \/ \E t \in tasks, ok \in BOOLEAN, status \in Statuses : PollJob(t, ok, status)
    \/ \E t \in tasks : Sleep(t)
    \/ \E t \in tasks, outcome \in {"message", "empty", "raise"} :
            FetchLatestReply(t, outcome)
    \/ \E r \in runs : EngineLate(r)
    \/ \E t \in tasks, ok \in BOOLEAN : Deliver(t, ok)
    \/ \E c \in Chats : Invalidate(c)
    \/ \E c \in Chats : WebhookAfterReset(c)

\* the state in which the first daily reminder and the first text turn of a
\* verified chat both await threads.create
InitReset ==
    /\ config = "ok"
    /\ update_queue = <<>>
    /\ user_threads = [c \in Chats |-> Absent]
    /\ users = [c \in Chats |-> IF c \in Newcomers THEN NoRow ELSE NewRow("ana@mail.com")]
    /\ verified_users = StartedUsers(config, users)
    /\ scheduler_jobs = StartedJobs(config, users)
    /\ n_inputs = MaxInputs
    /\ tasks = {[NewTask("reminder", 1, 1, "<prompt>", FALSE) EXCEPT !.pc = "create"],
                [NewTask("text", 1, MaxInputs, "hola", FALSE) EXCEPT !.pc = "create"]}
    /\ conversations = <<>>
    /\ n_threads = 0
    /\ runs = {}
    /\ latest = <<>>
    /\ cancel_calls = <<>>
    /\ outbox = <<>>
    /\ files = {}
    /\ ended = {}
    /\ boot = 0
    /\ last_stored = [c \in Chats |-> NoneThread]
    /\ validated = {}
    /\ invalidated = [c \in Chats |-> NoneThread]
    /\ lookup = "none"

\* the program with resets of conversations
SpecReset == InitReset /\ [][NextReset]_vars

\* the program started in any environment
SpecStartup == InitStartup /\ [][Next]_vars

----------------------------------------------------------------------------
(* Properties *)

TurnLive == {"typing", "create", "append", "submit", "poll", "sleep", "list"}
HasThread == {"append", "submit", "poll", "sleep", "list", "reply", "send"}

CancelCount(run) == Cardinality({k \in 1..Len(cancel_calls) : cancel_calls[k] = run})

\* C1: for every context handle, at most one run created against it is in a
\* non-terminal status at any instant, whoever submitted it (text turn, voice turn
\* or daily reminder)
C1_SingleFlight ==
    \A h \in 1..n_threads : Cardinality({r \in runs : r.thread = h}) <= 1

\* C2: per conversation, the audit rows appear in enqueue order, a turn in flight
\* was enqueued after every audited turn and before every queued one, and no two
\* turns of one conversation are in flight together
C2_Ordering ==
    /\ \A i, j \in 1..Len(conversations) :
            i < j /\ conversations[i].chat = conversations[j].chat
                => conversations[i].uid <= conversations[j].uid
    /\ \A t \in HandlerTasks :
        /\ \A k \in 1..Len(update_queue) :
                update_queue[k].chat = t.chat => t.uid < update_queue[k].uid
        /\ \A i \in 1..Len(conversations) :
                conversations[i].chat = t.chat => conversations[i].uid <= t.uid
        /\ \A i \in 1..Len(conversations) :
                conversations[i].chat = t.chat /\ t.pc \in TurnLive
                    => conversations[i].uid < t.uid
    /\ \A k \in 1..Len(update_queue), i \in 1..Len(conversations) :
            conversations[i].chat = update_queue[k].chat
                => conversations[i].uid < update_queue[k].uid
    /\ \A t1, t2 \in HandlerTasks : t1.chat = t2.chat => t1 = t2

\* a text turn that was enqueued while an earlier turn of its chat was polling has
\* written its audit rows, after the rows of the earlier turn
C2_Witness ==
    \E t \in tasks :
        /\ t.kind = "text" /\ t.pc = "reply" /\ t.during
        /\ \E i, j \in 1..Len(conversations) :
            /\ i < j
            /\ conversations[i].chat = t.chat /\ conversations[j].chat = t.chat
            /\ conversations[i].uid < t.uid /\ conversations[j].uid = t.uid

\* C3: two get_or_create_thread calls in flight together for one conversation make
\* one remote creation between them and hold the same handle
C3_IdempotentCreate ==
    \A t1, t2 \in tasks :
        t1 # t2 /\ t1.chat = t2.chat =>
            /\ ~(t1.pc = "create" /\ t2.pc = "create")
            /\ (IsHandle(t1.thread_id) /\ IsHandle(t2.thread_id)
                    => t1.thread_id = t2.thread_id)

\* C4: within one process run, the handle a conversation holds never changes
C4_HandleStable ==
    [][\A c \in Chats :
            IsHandle(user_threads[c]) /\ boot' = boot
                => user_threads'[c] = user_threads[c]]_vars

\* C5: a failed CreateContext leaves no entry, in particular no None, in the
\* handle map
C5_NoFailedHandleStored ==
    \A c \in Chats : user_threads[c] # NoneThread

\* C6: after a restart, a conversation that held a handle before the restart gets
\* that handle back from get_or_create_thread, without a remote creation
C6_DurableHandle ==
    \A t \in tasks :
        IsHandle(last_stored[t.chat]) =>
            /\ t.pc # "create"
            /\ (t.pc \in HasThread => t.thread_id = last_stored[t.chat])

\* C7: a run whose polling timed out was sent exactly one runs.cancel request
C7_TimeoutCancels ==
    \A t \in tasks : t.exit = "timeout" => CancelCount(t.run) = 1

\* C8: whatever statuses the engine reports, a coroutine sleeps in the polling
\* loop only while its elapsed time is within the budget, and polls for the last
\* time no later than one poll interval after the budget
C8_BoundedPolling ==
    \A t \in tasks :
        /\ t.pc = "sleep" => t.elapsed <= Budget(t)
        /\ t.pc = "poll" => t.elapsed <= Budget(t) + 1

\* a text turn has left the polling loop by timeout after the engine reported a
\* status the loop does not name
C8_Witness ==
    \E t \in tasks :
        t.pc = "reply" /\ t.exit = "timeout" /\ t.seen = "requires_action"

\* C9: once a poll reports requires_action the runner polls no more, and the run
\* was sent a runs.cancel request
C9_RequiresActionStops ==
    \A t \in tasks :
        t.seen = "requires_action" =>
            t.pc \notin {"poll", "sleep", "list"} /\ CancelCount(t.run) = 1

\* C10: once a poll reports failed, cancelled or expired, the turn is out of the
\* polling loop with the generic failure text, has fetched no reply and has
\* submitted no second run
C10_TerminalFailure ==
    \A t \in tasks :
        t.seen \in FailedStatuses =>
            /\ t.pc \in {"reply", "apology", "route_apology"}
            /\ t.exit = "failed"
            /\ t.response = MSG_ERROR
            /\ ~t.fetched
            /\ t.submits = 1

\* a text turn returned the failure text after a poll reported a failed status
C10_Witness ==
    \E t \in tasks :
        t.kind = "text" /\ t.pc = "reply" /\ t.seen \in FailedStatuses
                        /\ t.response = MSG_ERROR

OutboxOf(uid) == SelectSeq(outbox, LAMBDA m : m.uid = uid)
RowsOf(uid) == SelectSeq(conversations, LAMBDA row : row.uid = uid)
AuditPair(t) ==
    <<[chat |-> t.chat, role |-> "user", uid |-> t.uid],
      [chat |-> t.chat, role |-> "assistant", uid |-> t.uid]>>

\* C11: a turn that timed out carries a text other than the one a turn carries
\* after a poll reported failed, cancelled or expired
C11_DistinctTimeoutNotice ==
    \A t \in tasks : t.exit = "timeout" => t.response # MSG_ERROR

\* C12: the message a coroutine fetched as its reply is the one its own run produced
C12_ReplyAttribution ==
    \A t \in tasks :
        t.fetched /\ t.exit = "break" => t.source = Message("assistant", t.run)

\* C13: a text turn that created its context, fetched a reply and is about to send
\* it made one creation, one append and one submission and wrote one audit pair,
\* user row first, before any message went out; once its handler has returned, one
\* message, the reply, has been delivered for it
C13_HappyPath ==
    /\ \A t \in tasks :
            t.kind = "text" /\ t.pc = "reply" /\ t.exit = "break"
                            /\ t.response = MSG_REPLY /\ t.creates >= 1 =>
                /\ t.creates = 1 /\ t.appends = 1 /\ t.submits = 1
                /\ RowsOf(t.uid) = AuditPair(t)
                /\ OutboxOf(t.uid) = <<>>
    /\ \A e \in ended :
            e.kind = "text" /\ e.replied /\ ~e.failed =>
                /\ OutboxOf(e.uid) = <<[uid |-> e.uid, text |-> MSG_REPLY]>>
                /\ Len(RowsOf(e.uid)) = 2

\* a text turn that had to create its context has returned after delivering its reply
C13_Witness ==
    \E e \in ended :
        /\ e.kind = "text" /\ e.replied /\ ~e.failed
        /\ boot = 0 /\ n_threads = 1 /\ user_threads[1] = 1
        /\ OutboxOf(e.uid) # <<>>

\* C14: a text turn that is about to send a failure text has written its audit pair
C14_FailedTurnsAudited ==
    \A t \in tasks :
        t.kind = "text" /\ t.pc = "reply" /\ t.exit # "break" =>
            RowsOf(t.uid) = AuditPair(t)

\* C15: for every handler that returned after a failure, without an exception
\* leaving it, exactly one message was delivered
C15_ExactlyOneNotice ==
    \A e \in ended : e.failed /\ ~e.escaped => Len(OutboxOf(e.uid)) = 1

\* C16: a handler that returned without failure, after processing yielded a reply,
\* has delivered that reply (nothing sends it once the handler has returned)
C16_ReplyDelivered ==
    \A e \in ended :
        e.replied /\ ~e.failed =>
            \E k \in 1..Len(outbox) : outbox[k] = [uid |-> e.uid, text |-> MSG_REPLY]

\* C17: after recognition reported unintelligible audio the handler appends nothing,
\* submits nothing and writes no audit row; the text it sends first is the retry
\* request, which no other outcome sends and which is neither the text for an
\* unavailable service nor the generic voice failure text
C17_UnintelligibleVoice ==
    /\ MSG_VOICE_RETRY \notin {MSG_VOICE_SERVICE, MSG_VOICE_ERROR}
    /\ \A t \in tasks :
        /\ t.exit = "unintelligible" =>
            /\ t.pc \in {"voice_notice", "voice_apology"}
            /\ t.appends = 0 /\ t.submits = 0 /\ t.creates = 0
            /\ RowsOf(t.uid) = <<>>
            /\ OutboxOf(t.uid) = <<>>
        /\ t.pc \in SendPcs =>
            (SendText(t) = MSG_VOICE_RETRY
                <=> t.exit = "unintelligible" /\ t.pc = "voice_notice")
    /\ \A k \in 1..Len(outbox) :
        outbox[k].text = MSG_VOICE_RETRY =>
            /\ RowsOf(outbox[k].uid) = <<>>
            /\ OutboxOf(outbox[k].uid) = <<outbox[k]>>
            /\ \A r \in runs : r.id # outbox[k].uid

\* the retry request has been delivered for a voice note
C17_Witness ==
    \E k \in 1..Len(outbox), e \in ended :
        outbox[k].text = MSG_VOICE_RETRY /\ e.uid = outbox[k].uid /\ e.kind = "voice"

\* C18: a text or voice handler that has appended a message or submitted a run acts
\* for a verified conversation
C18_AuthorizationGate ==
    \A t \in tasks :
        t.kind \in {"text", "voice"} /\ (t.appends > 0 \/ t.submits > 0) =>
            verified_users[t.chat] # NoEmail

\* C19: no handler returned by an exception leaving it
C19_NoEscape ==
    \A e \in ended : ~e.escaped

\* C20: the temporary audio file of a chat exists only while a voice handler of
\* that chat is running
C20_TempFileRemoved ==
    \A c \in files : \E t \in tasks : t.kind = "voice" /\ t.chat = c

\* C21: a process started without a required environment variable, without the
\* credentials file of the spreadsheet, or with a failed async_init accepts no
\* webhook update
C21_FatalConfiguration ==
    config # "ok" => n_inputs = 0 /\ update_queue = <<>>

\* a cap on the queued updates of one chat, below the number of updates posted
QueueCap == MaxInputs - 1

\* C22: the queue never holds more than QueueCap updates of one conversation (a put
\* at the cap is rejected or coalesced)
C22_Backpressure ==
    \A c \in Chats : Pending(c) <= QueueCap

\* C26: a text message of a chat that verify_email told 'Email validado' in this
\* process run is not handled by verify_email again
C26_VerificationTakesEffect ==
    \A t \in tasks : t.kind = "verify" => t.chat \notin validated

\* C27: every chat in verified_users has a row in users with the same e-mail
C27_VerifiedMatchesUsers ==
    \A c \in Chats :
        verified_users[c] # NoEmail => users[c].email = verified_users[c]

\* C28: the audit rows form pairs: every user row is followed by the assistant row
\* of the same turn, and every assistant row follows the user row of its turn
C28_AuditPairs ==
    \A i \in 1..Len(conversations) :
        /\ conversations[i].role = "user" =>
                /\ i < Len(conversations)
                /\ conversations[i + 1] = [conversations[i] EXCEPT !.role = "assistant"]
        /\ conversations[i].role = "assistant" =>
                /\ i > 1
                /\ conversations[i - 1] = [conversations[i] EXCEPT !.role = "user"]

\* the job of a chat is the one its row asks for: none without a row or with
\* reminders_enabled = 0, else one with the trigger of the row's time and timezone
JobMatches(jobs, table, c) ==
    jobs[c] = IF table[c] # NoRow /\ table[c].reminders_enabled = 1
              THEN TriggerOf(table[c]) ELSE NoJob

\* C29: when a settime, timezone, enablereminders or disablereminders handler has
\* run, the job of its chat matches the chat's row, and when a process has started
\* (load_all_reminders), the job of every chat matches its row
C29_JobMatchesSetting ==
    [][/\ boot' # boot /\ Started(config) =>
            \A c \in Chats : JobMatches(scheduler_jobs', users', c)
       /\ (/\ boot' = boot
           /\ update_queue # <<>>
           /\ update_queue' = Tail(update_queue)
           /\ Head(update_queue).kind \in CommandKinds)
            => JobMatches(scheduler_jobs', users', Head(update_queue).chat)]_vars

\* C30: a reminder is delivered only to a chat whose row has reminders_enabled = 1
\* at the moment of the delivery
C30_NoReminderAfterDisabling ==
    [][\A t \in tasks :
            (/\ t.kind = "reminder" /\ t.pc = "send"
             /\ t \notin tasks'
             /\ outbox' = Append(outbox, [uid |-> t.uid, text |-> MSG_REMINDER]))
                => users[t.chat] # NoRow /\ users[t.chat].reminders_enabled = 1]_vars

\* C23: once a conversation was reset, its first turn after the reset performs one
\* CreateContext itself and runs under a handle other than the removed one, and the
\* removed handle is not in the map again
C23_Reset ==
    /\ \A c \in Chats : invalidated[c] # NoneThread => user_threads[c] # invalidated[c]
    /\ \A t \in tasks :
            t.uid > MaxInputs /\ IsHandle(t.thread_id) =>
                t.creates = 1 /\ t.thread_id # invalidated[t.chat]

\* the step is verify_email calling is_user_whitelisted for the update at the head
\* of the queue
LookupStep ==
    /\ update_queue # <<>>
    /\ update_queue' = Tail(update_queue)
    /\ Head(update_queue).kind = "text"
    /\ verified_users[Head(update_queue).chat] = NoEmail
    /\ ValidEmail(Head(update_queue).text)

\* C31: when the whitelist lookup cannot be performed (sheets_service was not
\* built, or the lookup raises), verify_email leaves the chat unverified: no user
\* row is saved, no thread is created or stored, no coroutine is left that would
\* do so, and verified_users is unchanged
C31_WhitelistFailsClosed ==
    [][LookupStep /\ lookup' = "raises" =>
            /\ users' = users
            /\ user_threads' = user_threads
            /\ verified_users' = verified_users
            /\ n_threads' = n_threads
            /\ tasks' = tasks
            /\ validated' = validated]_vars

\* a process started without the credentials file was sent a well-formed e-mail by
\* a chat it does not know: the lookup raised and the chat has no row and no thread
C31_Witness ==
    /\ config = "no_credentials"
    /\ lookup = "raises"
    /\ \E c \in Newcomers :
            /\ users[c] = NoRow
            /\ user_threads[c] = Absent
            /\ verified_users[c] = NoEmail

====
